---- MODULE Spec2Model ----
(***************************************************************************)
(* Model of the ingestion pipeline of news_pipeline:                       *)
(*   pipeline/ingestion.py  (parser registry, ingest_source)               *)
(*   parsers/text_parser.py (TextParser)                                   *)
(*   crud.py, models.py     (articles table, create_article, get_source)   *)
(*   main.py                (POST /api/articles/)                          *)
(*                                                                         *)
(* Strings are sequences of one-character strings, so that suffix          *)
(* extraction, lower-casing, stripping and title-casing are computed.      *)
(*                                                                         *)
(* Field names follow the persistence layer (models.py / crud.py).  The    *)
(* pipeline's spellings of the same fields (source.url, content,           *)
(* source_url, metadata) are read as the persistence layer's location,     *)
(* content_text, original_url and attributes/metadata.                     *)
(***************************************************************************)
EXTENDS Integers, Sequences, FiniteSets, TLC

\* ------------------------------------------------------------------ bounds
MaxFiles == 3       \* directory entries present under the source directory
MaxRuns == 2        \* invocations of ingest_source over all processes
MaxApi == 1         \* POST /api/articles/ requests
MaxJobRuns == 1     \* rows of table job_runs
MaxJobFiles == 1    \* directory entries present when job runs are followed
MaxParsers == 4     \* classes in ALL_PARSERS when the registry is built on its own
MaxLines == 3       \* lines of a file given to TextParser.parse on its own
MaxLineLen == 3     \* characters of such a line

\* two terminals, each running scripts/run_ingest.py again and again
Procs == {1, 2}

NULL == "NULL"      \* Python None / SQL NULL
NUL == "NUL"        \* the character U+0000

\* ------------------------------------------------------------- characters
LowerLetters == <<"a","b","c","d","e","g","h","i","l","m","n","o","p","r","s","t","x","y">>
UpperLetters == <<"A","B","C","D","E","G","H","I","L","M","N","O","P","R","S","T","X","Y">>

IndexOf(c, letters) == CHOOSE i \in 1..Len(letters) : letters[i] = c

IsLower(c) == \E i \in 1..Len(LowerLetters) : LowerLetters[i] = c
IsUpper(c) == \E i \in 1..Len(UpperLetters) : UpperLetters[i] = c
IsCased(c) == IsLower(c) \/ IsUpper(c)

\* str.lower() on one character
LowerChar(c) == IF IsUpper(c) THEN LowerLetters[IndexOf(c, UpperLetters)] ELSE c
\* str.upper() on one character
UpperChar(c) == IF IsLower(c) THEN UpperLetters[IndexOf(c, LowerLetters)] ELSE c

\* str.lower() that leaves every character as it is
lower_Identity(s) == s

\* str.lower()
lower(s) == [i \in 1..Len(s) |-> LowerChar(s[i])]

\* str.title(): a cased character is upper-cased when it follows an uncased
\* character (or starts the string) and lower-cased otherwise
title(s) ==
    [i \in 1..Len(s) |->
        IF IsCased(s[i])
        THEN IF i = 1 \/ ~IsCased(s[i-1]) THEN UpperChar(s[i]) ELSE LowerChar(s[i])
        ELSE s[i]]

\* str.replace(old, new) for single characters
replace(s, old, new) == [i \in 1..Len(s) |-> IF s[i] = old THEN new ELSE s[i]]

IsSpace(c) == c \in {" ", "\n", "\t"}

\* str.strip()
strip(s) ==
    LET keep == {i \in 1..Len(s) : ~IsSpace(s[i])}
    IN  IF keep = {} THEN <<>>
        ELSE LET lo == CHOOSE i \in keep : \A j \in keep : i <= j
                 hi == CHOOSE i \in keep : \A j \in keep : j <= i
             IN  SubSeq(s, lo, hi)

\* str.startswith(prefix)
startswith(s, prefix) ==
    /\ Len(s) >= Len(prefix)
    /\ SubSeq(s, 1, Len(prefix)) = prefix

\* "\n".join(lines)
RECURSIVE join(_)
join(lines) ==
    IF Len(lines) = 0 THEN <<>>
    ELSE IF Len(lines) = 1 THEN lines[1]
    ELSE lines[1] \o <<"\n">> \o join(Tail(lines))

\* ------------------------------------------------------------ file system
\* The source directory /d and what may lie under it.  Each entry is a path;
\* DirEntries lists them in the directory's traversal order.
DirEntries == << "/d/a.txt", "/d/x.md", "/d/b.TXT", "/d/c.png", "/d/l.md",
                 "/d/n.txt", "/d/notes" >>
EntrySet == {DirEntries[i] : i \in 1..Len(DirEntries)}

\* Path.name
name(p) ==
    CASE p = "/d"        -> <<"d">>
      [] p = "/d/a.txt"  -> <<"a", ".", "t", "x", "t">>
      [] p = "/d/x.md"   -> <<"x", ".", "m", "d">>
      [] p = "/d/b.TXT"  -> <<"b", "-", "o", "_", "p", ".", "T", "X", "T">>
      [] p = "/d/c.png"  -> <<"c", ".", "p", "n", "g">>
      [] p = "/d/l.md"   -> <<"l", ".", "m", "d">>
      [] p = "/d/n.txt"  -> <<"n", ".", "t", "x", "t">>
      [] p = "/d/notes"  -> <<"n", "o", "t", "e", "s">>
      [] OTHER           -> <<>>

\* position of the last "." of a name when it starts a suffix, 0 when the
\* name has no "." or its last "." is the first or the last character
LastDot(n) ==
    LET dots == {i \in 1..Len(n) : n[i] = "."}
        last == CHOOSE i \in dots : \A j \in dots : j <= i
    IN  IF dots = {} THEN 0
        ELSE IF 1 < last /\ last < Len(n) THEN last ELSE 0

\* the suffix of a file name
NameSuffix(n) == IF LastDot(n) = 0 THEN <<>> ELSE SubSeq(n, LastDot(n), Len(n))

\* the stem of a file name
NameStem(n) == IF LastDot(n) = 0 THEN n ELSE SubSeq(n, 1, LastDot(n) - 1)

\* Path.suffix
suffix(p) == NameSuffix(name(p))

\* Path.stem
stem(p) == NameStem(name(p))

\* /d/x.md is a directory whose name has a dot; every other entry is a file
IsDirEntry(p) == p = "/d/x.md"

\* Path.resolve(): /d/l.md is a symbolic link to /d/a.txt
resolve(p) == IF p = "/d/l.md" THEN "/d/a.txt" ELSE p

\* the decoded lines of a file (content.splitlines())
splitlines(p) ==
    CASE p = "/d/a.txt" -> << <<"#", " ", "H", "i", " ">>, <<" ", "t">>, <<"e", " ">> >>
      [] p = "/d/b.TXT" -> << <<"#", "b">>, <<"o">> >>
      [] p = "/d/n.txt" -> << <<"n", NUL>> >>
      [] OTHER          -> <<>>

\* chardet.detect(raw_data)["encoding"]
detected(p) ==
    CASE p = "/d/a.txt" -> "ascii"
      [] p = "/d/b.TXT" -> "Windows-1252"
      [] OTHER          -> NULL

\* the bytes do not decode under the detected encoding
DecodeRaises(p) == p = "/d/b.TXT"

\* ------------------------------------------------------------------ parser
\* the parser classes: TextParser, and two further implementations of the
\* abstract Parser that advertise extensions TextParser advertises too
ParserClasses == {"TextParser", "MarkdownParser", "LogParser"}

\* TextParser.get_supported_extensions, and the lists the two further
\* classes return from theirs
get_supported_extensions(parser_class) ==
    IF parser_class = "TextParser"
    THEN << <<".", "t", "x", "t">>, <<".", "m", "d">> >>
    ELSE IF parser_class = "MarkdownParser"
    THEN << <<".", "m", "d">> >>
    ELSE IF parser_class = "LogParser"
    THEN << <<".", "l", "o", "g">>, <<".", "t", "x", "t">> >>
    ELSE <<>>

\* TextParser.parse on a path named file_name that holds f, where f.kind says
\* whether the path leads to a file, to a directory or to nothing.  The result
\* has raised = TRUE and the exception class in error when open() raises,
\* otherwise the ParsedArticle in data.
parse_KeepHeading(file_name, f) ==
    IF f.kind # "file"
    THEN [raised |-> TRUE,
          error |-> IF f.kind = "dir" THEN "IsADirectoryError"
                                      ELSE "FileNotFoundError",
          data |-> NULL]
    ELSE
      LET lines == f.lines
          heading == Len(lines) > 0 /\ startswith(lines[1], <<"#", " ">>)
      IN  [raised |-> FALSE,
           error |-> NULL,
           data |-> [title |-> IF heading
                               THEN strip(SubSeq(lines[1], 3, Len(lines[1])))
                               ELSE title(replace(replace(NameStem(file_name),
                                                          "-", " "), "_", " ")),
                     content_text |-> strip(join(lines)),
                     attributes |-> [source_filename |-> file_name,
                                     detected_encoding |-> "utf-8"]]]

parse(file_name, f) ==
    IF f.kind # "file"
    THEN [raised |-> TRUE,
          error |-> IF f.kind = "dir" THEN "IsADirectoryError"
                                      ELSE "FileNotFoundError",
          data |-> NULL]
    ELSE
      LET encoding0 == IF f.detected = NULL THEN "utf-8" ELSE f.detected
          encoding == IF f.decode_raises THEN "latin-1" ELSE encoding0
          lines == f.lines
          heading == Len(lines) > 0 /\ startswith(lines[1], <<"#", " ">>)
          title_ == IF heading
                    THEN strip(SubSeq(lines[1], 3, Len(lines[1])))
                    ELSE title(replace(replace(NameStem(file_name), "-", " "),
                                       "_", " "))
          content_start_line == IF heading THEN 1 ELSE 0
          content_text == strip(join(SubSeq(lines, content_start_line + 1, Len(lines))))
      IN  [raised |-> FALSE,
           error |-> NULL,
           data |-> [title |-> title_,
                     content_text |-> content_text,
                     attributes |-> [source_filename |-> file_name,
                                     detected_encoding |-> encoding]]]

\* ---------------------------------------------------------------- registry
\* get_parser_registry over a parser list.  The accumulator holds the dict
\* and the warnings printed so far; a later class overwrites an extension
\* registered by an earlier one, after a warning.
RECURSIVE RegisterExts(_, _, _)
RegisterExts(acc, parser_class, exts) ==
    IF Len(exts) = 0 THEN acc
    ELSE RegisterExts(
            [registry |-> [e \in (DOMAIN acc.registry) \cup {exts[1]} |->
                              IF e = exts[1] THEN parser_class
                                             ELSE acc.registry[e]],
             warnings |-> IF exts[1] \in DOMAIN acc.registry
                          THEN Append(acc.warnings, exts[1])
                          ELSE acc.warnings],
            parser_class, Tail(exts))

RECURSIVE RegisterAll(_, _)
RegisterAll(acc, parsers) ==
    IF Len(parsers) = 0 THEN acc
    ELSE RegisterAll(
            RegisterExts(acc, parsers[1], get_supported_extensions(parsers[1])),
            Tail(parsers))

EmptyRegistry == [e \in {} |-> NULL]

BuildRegistry_FirstWins(parsers) ==
    RegisterAll([registry |-> EmptyRegistry, warnings |-> <<>>],
                [i \in 1..Len(parsers) |-> parsers[Len(parsers) + 1 - i]])

\* the dict get_parser_registry returns together with what it printed
BuildRegistry(parsers) ==
    RegisterAll([registry |-> EmptyRegistry, warnings |-> <<>>], parsers)

get_parser_registry(parsers) == BuildRegistry(parsers).registry

\* ------------------------------------------------------------------- state
VARIABLES
    present,        \* the entries of DirEntries that exist on disk
    ALL_PARSERS,    \* the module-level parser list of pipeline/ingestion.py
    sources,        \* table sources: source_id -> row
    articles,       \* table articles: rows in insertion order
    job_runs,       \* table job_runs: rows in insertion order
    pc,             \* per process: position inside ingest_source
    source_id,      \* per process: the argument of ingest_source
    source,         \* per process: the row get_source returned
    files_to_process,           \* per process: the candidate list
    idx,            \* per process: position of the for loop in the list
    articles_created_count,     \* per process
    articles_skipped_count,     \* per process
    stdout,         \* per process: the summaries printed so far, oldest first
    stderr,         \* per process: messages of the latest invocation
    runs,           \* per process: invocations of ingest_source started
    api_calls,      \* POST /api/articles/ requests served so far
    exit_code,      \* per process: the exit status of the latest run_ingest.py
                    \* as a set, empty while the process has not ended
    session,        \* per process: the SessionLocal() of the latest run_ingest.py
    unit_in,        \* the arguments of a function called on its own, as a
                    \* set, empty when the function reads only globals
    unit_out        \* the value that call returned, as a set, empty before
                    \* the call

vars == << present, ALL_PARSERS, sources, articles, job_runs, pc, source_id,
           source, files_to_process,
           idx, articles_created_count, articles_skipped_count, stdout, stderr,
           runs, api_calls, exit_code, session, unit_in, unit_out >>

\* the state of scripts/run_ingest.py around ingest_source
script == << exit_code, session >>

\* a function applied on its own, outside any run
unit == << unit_in, unit_out >>

env == << present, ALL_PARSERS, sources >>

\* the source ids a caller passes: two rows of the table and one absent id
RequestedIds == {1, 2, 9}

\* rows of table sources at start: a directory source and a single-file one
InitialSources ==
    [i \in {1, 2} |->
        [source_id |-> i, type |-> "local",
         location |-> IF i = 1 THEN "/d" ELSE "/d/a.txt",
         last_run_timestamp |-> NULL, is_active |-> TRUE]]

\* Path.exists() that never reports a missing path
exists_Always(p) == TRUE

\* what following the path p leads to
Kind(p) ==
    IF p = "/d" THEN "dir"
    ELSE IF p \notin present \/ resolve(p) \notin present THEN "missing"
    ELSE IF IsDirEntry(resolve(p)) THEN "dir"
    ELSE "file"

\* what open() and read() find at the path p
FileAt(p) ==
    [kind |-> Kind(p),
     lines |-> splitlines(resolve(p)),
     detected |-> detected(resolve(p)),
     decode_raises |-> DecodeRaises(resolve(p))]

\* TextParser().parse(file_path) on the file system
TextParser_parse(file_path) == parse(name(file_path), FileAt(file_path))

\* Path.exists()
exists(p) == Kind(p) # "missing"

\* Path.is_file()
is_file(p) == Kind(p) = "file"

\* Path.is_dir()
is_dir(p) == Kind(p) = "dir"

\* the glob pattern "*.*" matches a name that contains a dot
MatchesStarDotStar(n) == \E i \in 1..Len(n) : n[i] = "."

\* the elements of seq that satisfy keep, in order
RECURSIVE SelectEntries(_, _)
SelectEntries(seq, keep) ==
    IF Len(seq) = 0 THEN <<>>
    ELSE (IF seq[1] \in keep THEN <<seq[1]>> ELSE <<>>)
         \o SelectEntries(Tail(seq), keep)

\* list(source_path.rglob("*.*")) for the directory /d
rglob(source_path) ==
    IF source_path = "/d"
    THEN SelectEntries(DirEntries,
             {e \in present : MatchesStarDotStar(name(e))})
    ELSE <<>>

\* ingest_source step 3: the candidate list of an existing location
ResolveFiles(source_path) ==
    IF is_file(source_path) THEN <<source_path>>
    ELSE IF is_dir(source_path) THEN rglob(source_path)
    ELSE <<>>

\* get_source falling back to the first row for an id that is not in the table
get_source_Fallback(id) ==
    IF id \in DOMAIN sources THEN {sources[id]} ELSE {sources[1]}

\* crud.get_source: db.get(Source, source_id); the set holding the row, or
\* the empty set for None
get_source(id) ==
    IF id \in DOMAIN sources THEN {sources[id]} ELSE {}

\* crud.get_article_by_source_url: is there a row with this original_url
get_article_by_source_url(source_url) ==
    \E i \in 1..Len(articles) : articles[i].original_url = source_url

\* db.commit() of an article row raises: the database rejects text that
\* holds the character U+0000
CommitRaises(row) ==
    \/ \E i \in 1..Len(row.title) : row.title[i] = NUL
    \/ \E i \in 1..Len(row.content_text) : row.content_text[i] = NUL

\* crud.create_article: the row built from an ArticleCreate
ArticleRow(article) ==
    [article_id |-> Len(articles) + 1,
     source_id |-> article.source_id,
     title |-> article.title,
     content_text |-> article.content_text,
     original_url |-> article.original_url,
     source_format |-> article.source_format,
     metadata |-> article.metadata]

\* crud.create_article: the table after db.add and db.commit
create_article(article) == Append(articles, ArticleRow(article))

\* ingest_source step 4d/4e: the ArticleCreate built from the parsed data
\* and the source id handed to create_article; no format is passed
ArticleIn(parsed_data, file_url, id) ==
    [source_id |-> id,
     title |-> parsed_data.title,
     content_text |-> parsed_data.content_text,
     original_url |-> file_url,
     source_format |-> NULL,
     metadata |-> parsed_data.attributes]

parser_registry == get_parser_registry(ALL_PARSERS)

\* no run has started, nothing is stored
RunInit ==
    /\ sources = InitialSources
    /\ articles = <<>>
    /\ job_runs = <<>>
    /\ pc = [p \in Procs |-> "idle"]
    /\ source_id = [p \in Procs |-> NULL]
    /\ source = [p \in Procs |-> NULL]
    /\ files_to_process = [p \in Procs |-> <<>>]
    /\ idx = [p \in Procs |-> 1]
    /\ articles_created_count = [p \in Procs |-> 0]
    /\ articles_skipped_count = [p \in Procs |-> 0]
    /\ stdout = [p \in Procs |-> <<>>]
    /\ stderr = [p \in Procs |-> <<>>]
    /\ runs = [p \in Procs |-> 0]
    /\ api_calls = 0
    /\ exit_code = [p \in Procs |-> {}]
    /\ session = [p \in Procs |-> "none"]

Init ==
    /\ present \in {s \in SUBSET EntrySet : Cardinality(s) <= MaxFiles}
    /\ ALL_PARSERS \in {<<>>, <<"TextParser">>}
    /\ RunInit
    /\ unit_in = {}
    /\ unit_out = {}

\* ----------------------------------------------------------------- actions
\* run_ingest.main lines 20-24 and ingest_source lines 45-79: open the
\* session, look up the source, build the registry, list the files, zero the
\* counters; each fatal condition prints and returns, and main then closes
\* the session (lines 27-29) and the process ends with status 0
TotalRuns == runs[1] + runs[2]

Start(p, id) ==
    /\ pc[p] \in {"idle", "returned", "interrupted"}
    /\ TotalRuns < MaxRuns
    /\ runs' = [runs EXCEPT ![p] = @ + 1]
    /\ source_id' = [source_id EXCEPT ![p] = id]
    /\ IF get_source(id) = {}
       THEN /\ stderr' = [stderr EXCEPT ![p] = <<[error |-> "source_not_found"]>>]
            /\ pc' = [pc EXCEPT ![p] = "returned"]
            /\ source' = [source EXCEPT ![p] = NULL]
            /\ files_to_process' = [files_to_process EXCEPT ![p] = <<>>]
       ELSE LET src == CHOOSE row \in get_source(id) : TRUE IN
            /\ source' = [source EXCEPT ![p] = src]
            /\ IF DOMAIN parser_registry = {}
               THEN /\ stderr' = [stderr EXCEPT ![p] = <<[error |-> "no_parsers"]>>]
                    /\ pc' = [pc EXCEPT ![p] = "returned"]
                    /\ files_to_process' = [files_to_process EXCEPT ![p] = <<>>]
               ELSE IF ~exists(src.location)
               THEN /\ stderr' = [stderr EXCEPT ![p] = <<[error |-> "path_not_found"]>>]
                    /\ pc' = [pc EXCEPT ![p] = "returned"]
                    /\ files_to_process' = [files_to_process EXCEPT ![p] = <<>>]
               ELSE /\ stderr' = [stderr EXCEPT ![p] = <<>>]
                    /\ pc' = [pc EXCEPT ![p] = "loop"]
                    /\ files_to_process' =
                         [files_to_process EXCEPT ![p] = ResolveFiles(src.location)]
    /\ idx' = [idx EXCEPT ![p] = 1]
    /\ articles_created_count' = [articles_created_count EXCEPT ![p] = 0]
    /\ articles_skipped_count' = [articles_skipped_count EXCEPT ![p] = 0]
    /\ session' = [session EXCEPT ![p] =
                       IF pc'[p] = "returned" THEN "closed" ELSE "open"]
    /\ exit_code' = [exit_code EXCEPT ![p] =
                         IF pc'[p] = "returned" THEN {0} ELSE {}]
    /\ UNCHANGED << env, unit, job_runs, articles, stdout, api_calls >>

file_path(p) == files_to_process[p][idx[p]]

\* ingest_source line 82
file_ext(p) == lower(suffix(file_path(p)))

\* ingest_source line 91
file_url_str(p) == resolve(file_path(p))

\* NextFile counting a file without a parser as skipped
NextFile_CountUnsupported(p) ==
    /\ pc[p] = "loop"
    /\ idx[p] <= Len(files_to_process[p])
    /\ IF file_ext(p) \notin DOMAIN parser_registry
       THEN /\ idx' = [idx EXCEPT ![p] = idx[p] + 1]
            /\ pc' = pc
            /\ articles_skipped_count' =
                   [articles_skipped_count EXCEPT ![p] = @ + 1]
       ELSE /\ idx' = idx
            /\ pc' = [pc EXCEPT ![p] = "check"]
            /\ articles_skipped_count' = articles_skipped_count
    /\ UNCHANGED << env, unit, script, job_runs, articles, source_id, source, files_to_process,
                    articles_created_count, stdout, stderr, runs, api_calls >>

\* ingest_source lines 81-87: take the next file; a file whose extension has
\* no parser is passed over
NextFile(p) ==
    /\ pc[p] = "loop"
    /\ idx[p] <= Len(files_to_process[p])
    /\ IF file_ext(p) \notin DOMAIN parser_registry
       THEN /\ idx' = [idx EXCEPT ![p] = idx[p] + 1]
            /\ pc' = pc
       ELSE /\ idx' = idx
            /\ pc' = [pc EXCEPT ![p] = "check"]
    /\ UNCHANGED << env, unit, script, job_runs, articles, source_id, source, files_to_process,
                    articles_created_count, articles_skipped_count,
                    stdout, stderr, runs, api_calls >>

\* CheckExisting without the lines 94-96: the result of the query is ignored
CheckExisting_NoSkip(p) ==
    /\ pc[p] = "check"
    /\ pc' = [pc EXCEPT ![p] = "parse"]
    /\ UNCHANGED << env, unit, script, job_runs, articles, source_id, source, files_to_process,
                    idx, articles_created_count, articles_skipped_count,
                    stdout, stderr, runs, api_calls >>

\* CheckExisting without the continue of line 96: an existing article is
\* counted as skipped and the file is parsed all the same
CheckExisting_CountAndParse(p) ==
    /\ pc[p] = "check"
    /\ articles_skipped_count' =
           [articles_skipped_count EXCEPT ![p] =
               IF get_article_by_source_url(file_url_str(p)) THEN @ + 1 ELSE @]
    /\ pc' = [pc EXCEPT ![p] = "parse"]
    /\ UNCHANGED << env, unit, script, job_runs, articles, source_id, source, files_to_process,
                    idx, articles_created_count, stdout, stderr, runs, api_calls >>

\* ingest_source lines 89-96: the idempotency query; an existing article
\* counts as skipped
CheckExisting(p) ==
    /\ pc[p] = "check"
    /\ IF get_article_by_source_url(file_url_str(p))
       THEN /\ articles_skipped_count' =
                   [articles_skipped_count EXCEPT ![p] = @ + 1]
            /\ idx' = [idx EXCEPT ![p] = idx[p] + 1]
            /\ pc' = [pc EXCEPT ![p] = "loop"]
       ELSE /\ articles_skipped_count' = articles_skipped_count
            /\ idx' = idx
            /\ pc' = [pc EXCEPT ![p] = "parse"]
    /\ UNCHANGED << env, unit, script, job_runs, articles, source_id, source, files_to_process,
                    articles_created_count, stdout, stderr, runs, api_calls >>

\* the message of ingest_source line 118
FailedMessage(p) == [failed |-> name(file_path(p))]

\* ParseAndSave with the try/except around the whole loop: an exception ends
\* the run
ParseAndSave_Abort(p) ==
    /\ pc[p] = "parse"
    /\ LET parsed == TextParser_parse(file_path(p))
           article_in == ArticleIn(parsed.data, file_url_str(p), source[p].source_id)
       IN  IF parsed.raised \/ CommitRaises(ArticleRow(article_in))
           THEN /\ stderr' = [stderr EXCEPT ![p] = Append(@, FailedMessage(p))]
                /\ articles' = articles
                /\ articles_created_count' = articles_created_count
                /\ idx' = idx
                /\ pc' = [pc EXCEPT ![p] = "returned"]
                /\ session' = [session EXCEPT ![p] = "closed"]
                /\ exit_code' = [exit_code EXCEPT ![p] = {0}]
           ELSE /\ articles' = create_article(article_in)
                /\ articles_created_count' =
                       [articles_created_count EXCEPT ![p] = @ + 1]
                /\ stderr' = stderr
                /\ idx' = [idx EXCEPT ![p] = idx[p] + 1]
                /\ pc' = [pc EXCEPT ![p] = "loop"]
                /\ UNCHANGED script
    /\ UNCHANGED << env, unit, job_runs, source_id, source, files_to_process,
                    articles_skipped_count, stdout, runs, api_calls >>

\* ParseAndSave with the counter incremented before parse and create_article
ParseAndSave_CountFirst(p) ==
    /\ pc[p] = "parse"
    /\ LET parsed == TextParser_parse(file_path(p))
           article_in == ArticleIn(parsed.data, file_url_str(p), source[p].source_id)
       IN  IF parsed.raised \/ CommitRaises(ArticleRow(article_in))
           THEN /\ stderr' = [stderr EXCEPT ![p] = Append(@, FailedMessage(p))]
                /\ articles' = articles
           ELSE /\ articles' = create_article(article_in)
                /\ stderr' = stderr
    /\ articles_created_count' = [articles_created_count EXCEPT ![p] = @ + 1]
    /\ idx' = [idx EXCEPT ![p] = idx[p] + 1]
    /\ pc' = [pc EXCEPT ![p] = "loop"]
    /\ UNCHANGED << env, unit, script, job_runs, source_id, source, files_to_process,
                    articles_skipped_count, stdout, runs, api_calls >>

\* ingest_source lines 98-118: parse the file and save the article; an
\* exception of either is printed and the loop goes on
ParseAndSave(p) ==
    /\ pc[p] = "parse"
    /\ LET parsed == TextParser_parse(file_path(p))
           article_in == ArticleIn(parsed.data, file_url_str(p), source[p].source_id)
       IN  IF parsed.raised \/ CommitRaises(ArticleRow(article_in))
           THEN /\ stderr' = [stderr EXCEPT ![p] = Append(@, FailedMessage(p))]
                /\ articles' = articles
                /\ articles_created_count' = articles_created_count
           ELSE /\ articles' = create_article(article_in)
                /\ articles_created_count' =
                       [articles_created_count EXCEPT ![p] = @ + 1]
                /\ stderr' = stderr
    /\ idx' = [idx EXCEPT ![p] = idx[p] + 1]
    /\ pc' = [pc EXCEPT ![p] = "loop"]
    /\ UNCHANGED << env, unit, script, job_runs, source_id, source, files_to_process,
                    articles_skipped_count, stdout, runs, api_calls >>

\* the lines 121-122 print
Summary(p) ==
    [source_id |-> source_id[p],
     created |-> articles_created_count[p],
     skipped |-> articles_skipped_count[p]]

\* ingest_source lines 120-122: the loop is over, print the two counters;
\* run_ingest.main lines 27-29 then close the session and the process ends
\* with status 0
Finish_StatusCountsFailures(p) ==
    /\ pc[p] = "loop"
    /\ idx[p] > Len(files_to_process[p])
    /\ stdout' = [stdout EXCEPT ![p] = Append(@, Summary(p))]
    /\ pc' = [pc EXCEPT ![p] = "returned"]
    /\ session' = [session EXCEPT ![p] = "closed"]
    /\ exit_code' = [exit_code EXCEPT ![p] =
                         IF \E i \in 1..Len(stderr[p]) : "failed" \in DOMAIN stderr[p][i]
                         THEN {1} ELSE {0}]
    /\ UNCHANGED << env, unit, job_runs, articles, source_id, source,
                    files_to_process, idx, articles_created_count,
                    articles_skipped_count, stderr, runs, api_calls >>

Finish_DeactivatesSource(p) ==
    /\ pc[p] = "loop"
    /\ idx[p] > Len(files_to_process[p])
    /\ stdout' = [stdout EXCEPT ![p] = Append(@, Summary(p))]
    /\ pc' = [pc EXCEPT ![p] = "returned"]
    /\ session' = [session EXCEPT ![p] = "closed"]
    /\ exit_code' = [exit_code EXCEPT ![p] = {0}]
    /\ sources' = [sources EXCEPT ![source_id[p]].is_active = FALSE]
    /\ UNCHANGED << present, ALL_PARSERS, unit, job_runs, articles, source_id,
                    source, files_to_process, idx, articles_created_count,
                    articles_skipped_count, stderr, runs, api_calls >>

Finish(p) ==
    /\ pc[p] = "loop"
    /\ idx[p] > Len(files_to_process[p])
    /\ stdout' = [stdout EXCEPT ![p] = Append(@, Summary(p))]
    /\ pc' = [pc EXCEPT ![p] = "returned"]
    /\ session' = [session EXCEPT ![p] = "closed"]
    /\ exit_code' = [exit_code EXCEPT ![p] = {0}]
    /\ UNCHANGED << env, unit, job_runs, articles, source_id, source, files_to_process, idx,
                    articles_created_count, articles_skipped_count,
                    stderr, runs, api_calls >>

\* the arguments int() accepts, which reach ingest_source as RequestedIds
IntegerArgs == {"1", "2", "9"}

\* run_ingest.main lines 10-18: no argument, or an argument int() rejects;
\* the script prints a line on stdout and exits with status 1 before it
\* opens a session.  argv holds the arguments after the script name.
BadArgs(p, argv) ==
    /\ pc[p] \in {"idle", "returned", "interrupted"}
    /\ TotalRuns < MaxRuns
    /\ IF Len(argv) < 1 THEN TRUE ELSE argv[1] \notin IntegerArgs
    /\ runs' = [runs EXCEPT ![p] = @ + 1]
    /\ stdout' = [stdout EXCEPT ![p] =
                      Append(@, [usage |-> IF Len(argv) < 1 THEN "usage"
                                                            ELSE "not_integer"])]
    /\ stderr' = [stderr EXCEPT ![p] = <<>>]
    /\ pc' = [pc EXCEPT ![p] = "idle"]
    /\ session' = [session EXCEPT ![p] = "none"]
    /\ exit_code' = [exit_code EXCEPT ![p] = {1}]
    /\ UNCHANGED << env, unit, job_runs, articles, source_id, source,
                    files_to_process, idx, articles_created_count,
                    articles_skipped_count, api_calls >>

\* QueryRaises without the finally clause of run_ingest.main
QueryRaises_NoFinally(p) ==
    /\ pc[p] = "check"
    /\ stderr' = [stderr EXCEPT ![p] = Append(@, [error |-> "An error occurred"])]
    /\ pc' = [pc EXCEPT ![p] = "returned"]
    /\ session' = session
    /\ exit_code' = [exit_code EXCEPT ![p] = {0}]
    /\ UNCHANGED << env, unit, job_runs, articles, source_id, source,
                    files_to_process, idx, articles_created_count,
                    articles_skipped_count, stdout, runs, api_calls >>

\* ingest_source line 92 raising (the database cannot be reached): the
\* query stands outside the try of lines 100-118, so the exception leaves
\* ingest_source; run_ingest.main lines 25-29 print it on stderr and close
\* the session, and the process ends with status 0
QueryRaises(p) ==
    /\ pc[p] = "check"
    /\ stderr' = [stderr EXCEPT ![p] = Append(@, [error |-> "An error occurred"])]
    /\ pc' = [pc EXCEPT ![p] = "returned"]
    /\ session' = [session EXCEPT ![p] = "closed"]
    /\ exit_code' = [exit_code EXCEPT ![p] = {0}]
    /\ UNCHANGED << env, unit, job_runs, articles, source_id, source,
                    files_to_process, idx, articles_created_count,
                    articles_skipped_count, stdout, runs, api_calls >>

KeyboardInterrupt_Rollback(p) ==
    /\ pc[p] \in {"loop", "check", "parse"}
    /\ pc' = [pc EXCEPT ![p] = "interrupted"]
    /\ articles' = SubSeq(articles, 1, Len(articles) - articles_created_count[p])
    /\ session' = [session EXCEPT ![p] = "closed"]
    /\ exit_code' = [exit_code EXCEPT ![p] = {}]
    /\ UNCHANGED << env, unit, job_runs, source_id, source, files_to_process,
                    idx, articles_created_count, articles_skipped_count,
                    stdout, stderr, runs, api_calls >>

\* run_ingest.main lines 23-29 when Ctrl-C arrives during the loop:
\* KeyboardInterrupt is no Exception, so the except clause lets it pass, the
\* finally clause closes the session and the process is ended by the signal,
\* without an exit status; the articles already stored were each committed
\* by create_article (crud.py line 100)
KeyboardInterrupt(p) ==
    /\ pc[p] \in {"loop", "check", "parse"}
    /\ pc' = [pc EXCEPT ![p] = "interrupted"]
    /\ session' = [session EXCEPT ![p] = "closed"]
    /\ exit_code' = [exit_code EXCEPT ![p] = {}]
    /\ UNCHANGED << env, unit, job_runs, articles, source_id, source,
                    files_to_process, idx, articles_created_count,
                    articles_skipped_count, stdout, stderr, runs, api_calls >>

\* the request bodies of POST /api/articles/ tried
ApiArticles ==
    { [source_id |-> NULL, title |-> <<"H", "i">>, content_text |-> <<"t">>,
       original_url |-> u, source_format |-> "html", metadata |-> NULL]
      : u \in {"/d/a.txt", "/d/b.TXT"} }

\* main.create_article: POST /api/articles/ hands the body to crud.create_article
ApiCreateArticle(article) ==
    /\ api_calls < MaxApi
    /\ api_calls' = api_calls + 1
    /\ ~CommitRaises(ArticleRow(article))
    /\ articles' = create_article(article)
    /\ UNCHANGED << env, unit, script, job_runs, pc, source_id, source, files_to_process, idx,
                    articles_created_count, articles_skipped_count,
                    stdout, stderr, runs >>

\* the status strings of models.JobRun's check constraint
JobStatuses == {"PENDING", "RUNNING", "SUCCESS", "FAILED", "PARTIAL"}

\* crud.create_job_run: a new row, "usually in PENDING or RUNNING state"
create_job_run(status) ==
    /\ Len(job_runs) < MaxJobRuns
    /\ job_runs' = Append(job_runs,
           [job_run_id |-> Len(job_runs) + 1, status |-> status,
            finished_at |-> NULL, details |-> NULL])
    /\ UNCHANGED << env, unit, script, articles, pc, source_id, source, files_to_process, idx,
                    articles_created_count, articles_skipped_count,
                    stdout, stderr, runs, api_calls >>

\* crud.update_job_run_status: overwrite the status of an existing row, and
\* finished_at and details when they are given
update_job_run_status(job_run_id, status, finished_at, details) ==
    /\ job_run_id \in 1..Len(job_runs)
    /\ job_runs' = [job_runs EXCEPT ![job_run_id] =
           [@ EXCEPT !.status = status,
                     !.finished_at = IF finished_at # NULL THEN finished_at ELSE @,
                     !.details = IF details # NULL THEN details ELSE @]]
    /\ UNCHANGED << env, unit, script, articles, pc, source_id, source, files_to_process, idx,
                    articles_created_count, articles_skipped_count,
                    stdout, stderr, runs, api_calls >>

ProcNext(p) ==
    \/ \E id \in RequestedIds : Start(p, id)
    \/ NextFile(p)
    \/ CheckExisting(p)
    \/ ParseAndSave(p)
    \/ Finish(p)

Next ==
    \/ \E p \in Procs : ProcNext(p)
    \/ \E article \in ApiArticles : ApiCreateArticle(article)

Spec == Init /\ [][Next]_vars

\* one terminal, one invocation after the other, nothing else writes
SeqNext == ProcNext(1)

SeqSpec == Init /\ [][SeqNext]_vars

\* two terminals running ingest_source side by side, nothing else writes
ConcNext == \E p \in Procs : ProcNext(p)

ConcSpec == Init /\ [][ConcNext]_vars

\* the job bookkeeping of the persistence layer next to one terminal
JobNext ==
    \/ ProcNext(1)
    \/ \E status \in {"PENDING", "RUNNING"} : create_job_run(status)
    \/ \E job_run_id \in 1..MaxJobRuns, status \in JobStatuses,
          finished_at \in {NULL, "now"}, details \in {NULL, "details"} :
            update_job_run_status(job_run_id, status, finished_at, details)

InitJob ==
    /\ Init
    /\ Cardinality(present) <= MaxJobFiles

JobSpec == InitJob /\ [][JobNext]_vars

\* the parser lists of at most MaxParsers classes
RECURSIVE ParserLists(_)
ParserLists(n) ==
    IF n = 0 THEN {<<>>}
    ELSE ParserLists(n - 1)
         \cup {Append(l, c) : l \in {m \in ParserLists(n - 1) : Len(m) = n - 1},
                              c \in ParserClasses}

\* get_parser_registry called on its own: the dict it returns and the
\* warnings it prints
CallGetParserRegistry ==
    /\ unit_out = {}
    /\ unit_out' = {BuildRegistry(ALL_PARSERS)}
    /\ UNCHANGED << env, unit_in, script, job_runs, articles, pc, source_id,
                    source, files_to_process, idx, articles_created_count,
                    articles_skipped_count, stdout, stderr, runs, api_calls >>

RegistryInit ==
    /\ present = {}
    /\ ALL_PARSERS \in ParserLists(MaxParsers)
    /\ RunInit
    /\ unit_in = {}
    /\ unit_out = {}

RegistryNext == CallGetParserRegistry

RegistrySpec == RegistryInit /\ [][RegistryNext]_vars

\* the arguments run_ingest.py rejects: none, or one that is no integer
BadArgvs == {<<>>, <<"abc">>}

\* the file names given to TextParser.parse on its own: my-report.txt,
\* a_B-c.md and README
FileNames ==
    { <<"m","y","-","r","e","p","o","r","t",".","t","x","t">>,
      <<"a","_","B","-","c",".","m","d">>,
      <<"R","E","A","D","M","E">> }

\* the characters of the lines of such a file
LineChars == {"#", " ", "a"}

\* the lines of at most n characters
RECURSIVE LinesUpTo(_)
LinesUpTo(n) ==
    IF n = 0 THEN {<<>>}
    ELSE LinesUpTo(n - 1)
         \cup {Append(l, c) : l \in {m \in LinesUpTo(n - 1) : Len(m) = n - 1},
                              c \in LineChars}

\* the lines a file may have after its first one
BodyLines ==
    { <<>>, <<" ">>, <<"a">>, <<" ", "a", " ">>, <<"#", " ", "a">> }

\* the files of at most n lines: any first line, then lines of BodyLines
RECURSIVE FilesUpTo(_)
FilesUpTo(n) ==
    IF n = 0 THEN {<<>>}
    ELSE IF n = 1 THEN {<<>>} \cup {<<l>> : l \in LinesUpTo(MaxLineLen)}
    ELSE FilesUpTo(n - 1)
         \cup {Append(ls, l) : ls \in {m \in FilesUpTo(n - 1) : Len(m) = n - 1},
                               l \in BodyLines}

\* what parse may find at its path: a file with some lines, whose encoding
\* chardet names or not and whose first decoding fails or not, a directory,
\* or nothing
ParseInputs ==
    {[name |-> n,
      f |-> [kind |-> "file", lines |-> ls, detected |-> e.detected,
             decode_raises |-> e.decode_raises]] :
        n \in FileNames, ls \in FilesUpTo(MaxLines),
        e \in {[detected |-> NULL, decode_raises |-> FALSE],
               [detected |-> "ascii", decode_raises |-> TRUE]}}
    \cup {[name |-> n,
           f |-> [kind |-> k, lines |-> <<>>, detected |-> NULL,
                  decode_raises |-> FALSE]] :
             n \in FileNames, k \in {"dir", "missing"}}

\* TextParser().parse called on its own
CallParse ==
    /\ unit_out = {}
    /\ \E in \in unit_in : unit_out' = {parse(in.name, in.f)}
    /\ UNCHANGED << env, unit_in, script, job_runs, articles, pc, source_id,
                    source, files_to_process, idx, articles_created_count,
                    articles_skipped_count, stdout, stderr, runs, api_calls >>

ParseInit ==
    /\ present = {}
    /\ ALL_PARSERS = <<"TextParser">>
    /\ RunInit
    /\ \E in \in ParseInputs : unit_in = {in}
    /\ unit_out = {}

ParseNext == CallParse

ParseSpec == ParseInit /\ [][ParseNext]_vars

\* one terminal running scripts/run_ingest.py with any arguments, against a
\* database whose queries may fail
ScriptNext ==
    \/ ProcNext(1)
    \/ \E argv \in BadArgvs : BadArgs(1, argv)
    \/ QueryRaises(1)

ScriptSpec == Init /\ [][ScriptNext]_vars

\* one terminal whose operator may press Ctrl-C while the loop runs
InterruptNext ==
    \/ ProcNext(1)
    \/ KeyboardInterrupt(1)

InterruptSpec == Init /\ [][InterruptNext]_vars

\* the type of the state
TypeOK ==
    /\ present \subseteq EntrySet
    /\ pc \in [Procs -> {"idle", "loop", "check", "parse", "returned", "interrupted"}]
    /\ \A p \in Procs : idx[p] \in 1..(Len(files_to_process[p]) + 1)
    /\ runs \in [Procs -> 0..MaxRuns]

\* ------------------------------------------------------------------ claims
\* the latest invocation in terminal p ran its loop to the end
Completed(p) ==
    /\ pc[p] = "returned"
    /\ \A i \in 1..Len(stderr[p]) : "error" \notin DOMAIN stderr[p][i]

\* the latest invocation in terminal p stopped on a fatal condition
Fatal(p) ==
    /\ pc[p] = "returned"
    /\ \E i \in 1..Len(stderr[p]) : "error" \in DOMAIN stderr[p][i]

\* the candidates of terminal p whose lower-cased suffix has a parser
SupportedPositions(p) ==
    {i \in 1..Len(files_to_process[p]) :
        lower(suffix(files_to_process[p][i])) \in DOMAIN parser_registry}

\* the "Failed to parse or save" lines of the latest invocation
NumFailed(p) ==
    Cardinality({i \in 1..Len(stderr[p]) : "failed" \in DOMAIN stderr[p][i]})

\* C1 (as stated): of two summaries printed one after the other for the same
\* source, with nothing else writing in between, the second reports created = 0
\* and skipped = the created count of the first.
C1_SecondRunSkipsCreated ==
    \A i \in 1..(Len(stdout[1]) - 1) :
        stdout[1][i].source_id = stdout[1][i + 1].source_id
        => /\ stdout[1][i + 1].created = 0
           /\ stdout[1][i + 1].skipped = stdout[1][i].created

\* C1 (amended): of two summaries printed one after the other for the same
\* source, with nothing else writing in between, the second reports created = 0
\* and skipped = created + skipped of the first.
C1_SecondRunSkipsAll ==
    \A i \in 1..(Len(stdout[1]) - 1) :
        stdout[1][i].source_id = stdout[1][i + 1].source_id
        => /\ stdout[1][i + 1].created = 0
           /\ stdout[1][i + 1].skipped =
                  stdout[1][i].created + stdout[1][i].skipped

\* C1 witness: the directory source was ingested twice in a row and the
\* first run created articles
C1_Witness ==
    /\ Len(stdout[1]) = 2
    /\ stdout[1][1].source_id = 1
    /\ stdout[1][2].source_id = 1
    /\ stdout[1][1].created >= 2
    /\ stdout[1][2].skipped >= 2

\* C2: at most one row of table articles for each original_url.
C2_OneArticlePerKey ==
    \A i, j \in 1..Len(articles) :
        articles[i].original_url = articles[j].original_url => i = j

\* C3: check-then-insert is serialized: whenever a run inserts an article, no
\* article with that key is in the table at the moment of the insert.
C3_InsertOnlyWhenAbsent ==
    [][\A p \in Procs :
          (pc[p] = "parse" /\ pc'[p] = "loop" /\ Len(articles') > Len(articles))
          => ~get_article_by_source_url(file_url_str(p))]_vars

SummaryFailed(r) == IF "failed" \in DOMAIN r THEN r.failed ELSE 0

\* C5: the summary of a completed run has created + skipped + failed equal to
\* the number of candidates with a supported extension.
C5_CountersCoverCandidates ==
    \A p \in Procs :
        Completed(p) =>
            LET r == stdout[p][Len(stdout[p])]
            IN  r.created + r.skipped + SummaryFailed(r)
                    = Cardinality(SupportedPositions(p))

\* C6: a candidate without an article whose parse returns a record and whose
\* row the database accepts gets exactly one new row, carrying the key, the
\* parsed title, content and attributes, the source id and a format tag, and
\* created goes up by one.
C6_CreatedArticleCarriesFields ==
    [][\A p \in Procs :
          (/\ pc[p] = "parse"
           /\ pc'[p] = "loop"
           /\ ~TextParser_parse(file_path(p)).raised
           /\ ~CommitRaises(ArticleRow(ArticleIn(TextParser_parse(file_path(p)).data,
                                                  file_url_str(p), source_id[p]))))
          => /\ Len(articles') = Len(articles) + 1
             /\ SubSeq(articles', 1, Len(articles)) = articles
             /\ LET row == articles'[Len(articles')]
                     data == TextParser_parse(file_path(p)).data
                 IN  /\ row.original_url = resolve(file_path(p))
                     /\ row.title = data.title
                     /\ row.content_text = data.content_text
                     /\ row.metadata = data.attributes
                     /\ row.source_id = source_id[p]
                     /\ row.source_format # NULL
             /\ articles_created_count'[p] = articles_created_count[p] + 1]_vars

\* C7: a step of the idempotency check that finds an article with the
\* candidate's key adds one to skipped, goes back to the loop head without
\* passing through the parse step, and leaves table articles as it was.
C7_SkipLeavesStoreAlone ==
    [][\A p \in Procs :
          (/\ pc[p] = "check"
           /\ pc'[p] # "check"
           /\ \E i \in 1..Len(articles) :
                  articles[i].original_url = resolve(files_to_process[p][idx[p]]))
          => /\ articles_skipped_count'[p] = articles_skipped_count[p] + 1
             /\ articles_created_count'[p] = articles_created_count[p]
             /\ pc'[p] = "loop"
             /\ idx'[p] = idx[p] + 1
             /\ articles' = articles
             /\ stderr' = stderr]_vars

\* C7 witness: a run has skipped a candidate whose article is stored
C7_Witness ==
    \E p \in Procs :
        /\ pc[p] = "loop"
        /\ idx[p] > 1
        /\ articles_skipped_count[p] > 0
        /\ \E i \in 1..Len(articles) :
               articles[i].original_url = resolve(files_to_process[p][idx[p] - 1])

\* C8: a step of the loop head on a candidate whose lower-cased suffix has no
\* parser moves to the next candidate and changes no counter, no table and no
\* output; it reaches neither the idempotency query nor the parse step.
C8_UnsupportedIsFiltered ==
    [][\A p \in Procs :
          (/\ pc[p] = "loop"
           /\ idx[p] <= Len(files_to_process[p])
           /\ lower(suffix(files_to_process[p][idx[p]]))
                  \notin DOMAIN get_parser_registry(ALL_PARSERS)
           /\ (pc'[p] # pc[p] \/ idx'[p] # idx[p]))
          => /\ pc'[p] = "loop"
             /\ idx'[p] = idx[p] + 1
             /\ articles_created_count' = articles_created_count
             /\ articles_skipped_count' = articles_skipped_count
             /\ articles' = articles
             /\ stderr' = stderr
             /\ stdout' = stdout]_vars

\* C8 witness: a run has passed over c.png with all counters at zero and
\* finished
C8_Witness ==
    \E p \in Procs :
        /\ Completed(p)
        /\ files_to_process[p] = <<"/d/c.png">>
        /\ stdout[p] = <<[source_id |-> 1, created |-> 0, skipped |-> 0]>>
        /\ stderr[p] = <<>>
        /\ articles = <<>>

\* C9: an invocation with a source id that is no row of table sources prints
\* the not-found error and returns with an empty candidate list; the step
\* changes neither table articles nor table job_runs and prints no summary.
C9_MissingSourceAborts ==
    [][\A p \in Procs :
          (runs'[p] = runs[p] + 1 /\ source_id'[p] \notin DOMAIN sources)
          => /\ pc'[p] = "returned"
             /\ stderr'[p] = <<[error |-> "source_not_found"]>>
             /\ files_to_process'[p] = <<>>
             /\ articles' = articles
             /\ job_runs' = job_runs
             /\ stdout' = stdout]_vars

\* C9 witness: ingest_source(9) has returned while a job run row exists
C9_Witness ==
    /\ pc[1] = "returned"
    /\ source_id[1] = 9
    /\ stderr[1] = <<[error |-> "source_not_found"]>>
    /\ Len(job_runs) > 0

TerminalStatuses == {"SUCCESS", "FAILED", "PARTIAL"}

\* C11: an invocation whose loop starts adds one row to table job_runs with
\* status RUNNING, and the step that ends the run moves one RUNNING row to a
\* terminal status.
C11_RunIsRecorded ==
    [][\A p \in Procs :
          /\ (runs'[p] = runs[p] + 1 /\ pc'[p] = "loop")
             => /\ Len(job_runs') = Len(job_runs) + 1
                /\ job_runs'[Len(job_runs')].status = "RUNNING"
          /\ (pc[p] = "loop" /\ pc'[p] = "returned")
             => \E i \in 1..Len(job_runs) :
                    /\ job_runs[i].status = "RUNNING"
                    /\ job_runs'[i].status \in TerminalStatuses]_vars

\* C12: a row of table job_runs whose status is terminal keeps that status in
\* every later step.
C12_TerminalIsFinal ==
    [][\A i \in 1..Len(job_runs) :
          job_runs[i].status \in TerminalStatuses
          => /\ i <= Len(job_runs')
             /\ job_runs'[i].status = job_runs[i].status]_vars

\* C13: when a run has completed, a row of table job_runs carries the status
\* its counters call for: SUCCESS with no failure, PARTIAL with failures and
\* created articles, FAILED with failures and no created article.
C13_StatusFollowsCounters ==
    \A p \in Procs :
        Completed(p)
        => LET created == articles_created_count[p]
               failed == NumFailed(p)
               expected == IF failed = 0 THEN "SUCCESS"
                           ELSE IF created > 0 THEN "PARTIAL" ELSE "FAILED"
           IN  \E i \in 1..Len(job_runs) : job_runs[i].status = expected

\* the regular files under the directory, symbolic links followed
RegularFiles == {e \in EntrySet : Kind(e) = "file"}

\* C16: the candidates of a run whose loop has started are the location
\* itself when it is a single file, and for the directory every regular file
\* under it, whatever its name, and no directory.
C16_CandidatesAreTheRegularFiles ==
    \A p \in Procs :
        (pc[p] \in {"loop", "check", "parse"} \/ Completed(p))
        => LET location == sources[source_id[p]].location
               candidates == {files_to_process[p][i] :
                                  i \in 1..Len(files_to_process[p])}
           IN  /\ location # "/d" => files_to_process[p] = <<location>>
               /\ location = "/d" => candidates = RegularFiles

\* C14: no step, the interruption of a run included, removes or changes a
\* stored article, and a run, re-invoked after an interruption or not, stores
\* an article only for a candidate whose lower-cased suffix has a parser and
\* whose key no stored article carries.
C14_PartialRunKeepsArticles ==
    [][/\ Len(articles') >= Len(articles)
       /\ SubSeq(articles', 1, Len(articles)) = articles
       /\ \A k \in (Len(articles) + 1)..Len(articles') :
              /\ \A j \in 1..Len(articles) :
                     articles[j].original_url # articles'[k].original_url
              /\ \E e \in EntrySet :
                     /\ resolve(e) = articles'[k].original_url
                     /\ lower(suffix(e)) \in DOMAIN parser_registry]_vars

\* C14 witness: the first run over a.txt and b.TXT was interrupted after
\* a.txt (it printed no summary), the second run skipped a.txt, created the
\* article of b.TXT and completed
C14_Witness ==
    /\ runs[1] = 2
    /\ Completed(1)
    /\ Len(stdout[1]) = 1
    /\ files_to_process[1] = <<"/d/a.txt", "/d/b.TXT">>
    /\ articles_skipped_count[1] = 1
    /\ articles_created_count[1] = 1
    /\ Len(articles) = 2
    /\ articles[1].original_url = "/d/a.txt"
    /\ articles[2].original_url = "/d/b.TXT"

\* C15: the registry built from a parser list maps every advertised extension
\* to the class latest in the list that advertises it, and for every
\* extension advertised at two positions of the list a warning naming it was
\* printed; the call returns the registry in every case.
C15_LastRegisteredWins ==
    \A r \in unit_out :
        LET Exts(c) == {get_supported_extensions(c)[k] :
                           k \in 1..Len(get_supported_extensions(c))}
            Advertisers(ext) ==
                {i \in 1..Len(ALL_PARSERS) : ext \in Exts(ALL_PARSERS[i])}
            Last(ext) == CHOOSE i \in Advertisers(ext) :
                             \A j \in Advertisers(ext) : j <= i
        IN  /\ DOMAIN r.registry = UNION {Exts(ALL_PARSERS[i]) :
                                             i \in 1..Len(ALL_PARSERS)}
            /\ \A ext \in DOMAIN r.registry :
                   /\ r.registry[ext] = ALL_PARSERS[Last(ext)]
                   /\ Cardinality(Advertisers(ext)) >= 2
                      => \E w \in 1..Len(r.warnings) : r.warnings[w] = ext

\* C15 witness: TextParser then LogParser were registered; ".txt" went to
\* LogParser with one warning and ".md" stayed with TextParser
C15_Witness ==
    /\ ALL_PARSERS = <<"TextParser", "LogParser">>
    /\ \E r \in unit_out :
           /\ r.registry[<<".", "t", "x", "t">>] = "LogParser"
           /\ r.registry[<<".", "m", "d">>] = "TextParser"
           /\ r.warnings = << <<".", "t", "x", "t">> >>

\* C17: a process that returned from ingest_source on a fatal condition
\* (source row missing, no parser, location absent) ended with a non-zero
\* status or with an error line on stderr; one that returned without such a
\* condition ended with status 0, whatever the number of per-file failures;
\* one that rejected its arguments ended with a non-zero status.
C17_ExitOutcome ==
    \A p \in Procs :
        /\ pc[p] = "returned"
           => LET fatal ==
                      \/ source_id[p] \notin DOMAIN sources
                      \/ ALL_PARSERS = <<>>
                      \/ /\ sources[source_id[p]].location # "/d"
                         /\ sources[source_id[p]].location \notin present
              IN  /\ fatal => \/ exit_code[p] \notin {{}, {0}}
                              \/ \E i \in 1..Len(stderr[p]) :
                                     "error" \in DOMAIN stderr[p][i]
                  /\ ~fatal => exit_code[p] = {0}
        /\ (pc[p] = "idle" /\ runs[p] > 0) => exit_code[p] \notin {{}, {0}}

\* C17 witness: a run that stored one article and reported one per-file
\* failure has ended with status 0
C17_Witness ==
    /\ Completed(1)
    /\ articles_created_count[1] = 1
    /\ NumFailed(1) = 1
    /\ exit_code[1] = {0}

\* C18: no step of an ingest run removes a row of table sources, and the
\* only field of a row a step may change is last_run_timestamp, of the source
\* a run is ingesting.
C18_SourcesAreKept ==
    [][/\ DOMAIN sources \subseteq DOMAIN sources'
       /\ \A id \in DOMAIN sources :
              /\ DOMAIN sources'[id] = DOMAIN sources[id]
              /\ \A field \in DOMAIN sources[id] \ {"last_run_timestamp"} :
                     sources'[id][field] = sources[id][field]
              /\ sources'[id].last_run_timestamp # sources[id].last_run_timestamp
                 => \E p \in Procs : source_id'[p] = id]_vars

\* C18 witness: both sources were ingested, articles were stored, and table
\* sources is as the administrator left it
C18_Witness ==
    /\ Completed(1)
    /\ source_id[1] = 2
    /\ Len(stdout[1]) = 2
    /\ stdout[1][1].source_id = 1
    /\ stdout[1][1].created >= 1
    /\ sources = InitialSources

\* t is s without its leading and trailing whitespace
Trimmed(t, s) ==
    /\ Len(t) > 0 => ~IsSpace(t[1]) /\ ~IsSpace(t[Len(t)])
    /\ \E lead \in 0..(Len(s) - Len(t)) :
           /\ SubSeq(s, lead + 1, lead + Len(t)) = t
           /\ \A i \in 1..Len(s) :
                  (i <= lead \/ i > lead + Len(t)) => IsSpace(s[i])

\* t is s with "-" and "_" turned into spaces, every letter that starts a
\* word in upper case and every other letter in lower case
TitleCased(t, s) ==
    /\ Len(t) = Len(s)
    /\ \A i \in 1..Len(s) :
           IF s[i] \in {"-", "_"} THEN t[i] = " "
           ELSE IF ~IsCased(s[i]) THEN t[i] = s[i]
           ELSE /\ LowerChar(t[i]) = LowerChar(s[i])
                /\ IF i = 1 \/ ~IsCased(s[i - 1]) THEN IsUpper(t[i])
                                                  ELSE IsLower(t[i])

\* C19: for a file that can be read, when the first line starts with "# " the
\* title is the rest of that line, trimmed, and the content is the other
\* lines joined, trimmed; otherwise the title is the title-cased stem with
\* "-" and "_" as spaces and the content is all the lines joined, trimmed.
\* my-report.txt without a heading gets the title "My Report".
C19_TitleAndContent ==
    \A in \in unit_in : \A out \in unit_out :
        in.f.kind = "file"
        => LET lines == in.f.lines
               heading == /\ Len(lines) > 0
                          /\ Len(lines[1]) >= 2
                          /\ lines[1][1] = "#"
                          /\ lines[1][2] = " "
           IN  /\ ~out.raised
               /\ IF heading
                  THEN /\ Trimmed(out.data.title,
                                  SubSeq(lines[1], 3, Len(lines[1])))
                       /\ Trimmed(out.data.content_text, join(Tail(lines)))
                  ELSE /\ TitleCased(out.data.title, NameStem(in.name))
                       /\ Trimmed(out.data.content_text, join(lines))
               /\ (~heading /\ in.name = <<"m","y","-","r","e","p","o","r","t",
                                           ".","t","x","t">>)
                  => out.data.title = <<"M","y"," ","R","e","p","o","r","t">>

\* C19 witness: my-report.txt holding "# a " and " a" was parsed: the title
\* is "a" and the content is "a", without the heading line
C19_Witness ==
    \E in \in unit_in : \E out \in unit_out :
        /\ in.name = <<"m","y","-","r","e","p","o","r","t",".","t","x","t">>
        /\ in.f.kind = "file"
        /\ in.f.lines = << <<"#", " ", "a">>, <<" ", "a", " ">> >>
        /\ out.data.title = <<"a">>
        /\ out.data.content_text = <<"a">>

\* C20: a call of parse either returns a record whose title, content and
\* attributes are all there, or raises the extraction error; it raises no
\* other error.
C20_RecordOrExtractionError ==
    \A out \in unit_out :
        IF out.raised
        THEN out.error = "ExtractionError"
        ELSE DOMAIN out.data = {"title", "content_text", "attributes"}

\* C21: a run starts with created = 0; afterwards created changes only in the
\* step that parses and saves a candidate, by exactly the number of rows that
\* step adds to table articles (one row, carrying the candidate's key and the
\* run's source id); a step that prints a failure adds no row and leaves
\* created as it was.
C21_CreatedCountsPersisted ==
    [][\A p \in Procs :
          /\ runs'[p] = runs[p] + 1
             => /\ articles_created_count'[p] = 0
                /\ articles' = articles
          /\ (runs'[p] = runs[p]
                  /\ articles_created_count'[p] # articles_created_count[p])
             => /\ pc[p] = "parse"
                /\ pc'[p] = "loop"
                /\ articles_created_count'[p] = articles_created_count[p] + 1
          /\ (pc[p] = "parse" /\ pc'[p] = "loop")
             => /\ SubSeq(articles', 1, Len(articles)) = articles
                /\ Len(articles') - Len(articles)
                       = articles_created_count'[p] - articles_created_count[p]
                /\ Len(articles') > Len(articles)
                   => /\ articles'[Len(articles')].original_url
                             = resolve(files_to_process[p][idx[p]])
                      /\ articles'[Len(articles')].source_id = source_id[p]
                      /\ stderr' = stderr
                /\ Len(stderr'[p]) > Len(stderr[p])
                   => /\ articles' = articles
                      /\ articles_created_count'[p] = articles_created_count[p]]_vars

\* C21 witness: a run over a.txt and n.txt stored the article of a.txt,
\* failed to save n.txt, and ended with created = 1 and one row
C21_Witness ==
    \E p \in Procs :
        /\ Completed(p)
        /\ files_to_process[p] = <<"/d/a.txt", "/d/n.txt">>
        /\ stderr[p] = <<[failed |-> name("/d/n.txt")]>>
        /\ articles_created_count[p] = 1
        /\ Len(articles) = 1
        /\ articles[1].original_url = "/d/a.txt"

\* C22: the loop head sends a candidate on to the idempotency query exactly
\* when its suffix, every letter put in lower case, is a key of the registry,
\* and passes over it otherwise; b-o_p.TXT and a.txt both reach the parser
\* registered for ".txt".
C22_DispatchIgnoresCase ==
    [][\A p \in Procs :
          (/\ pc[p] = "loop"
           /\ idx[p] <= Len(files_to_process[p])
           /\ (pc'[p] # pc[p] \/ idx'[p] # idx[p]))
          => LET suffix_ == suffix(files_to_process[p][idx[p]])
                 key == [i \in 1..Len(suffix_) |-> LowerChar(suffix_[i])]
                 registry == get_parser_registry(ALL_PARSERS)
             IN  /\ key \in DOMAIN registry
                    => /\ pc'[p] = "check"
                       /\ idx'[p] = idx[p]
                 /\ key \notin DOMAIN registry
                    => /\ pc'[p] = "loop"
                       /\ idx'[p] = idx[p] + 1
                 /\ files_to_process[p][idx[p]] = "/d/b.TXT"
                    => /\ suffix_ = <<".", "T", "X", "T">>
                       /\ registry # EmptyRegistry
                          => /\ pc'[p] = "check"
                             /\ registry[key] = registry[suffix("/d/a.txt")]]_vars

\* C22 witness: a first run over a.txt and b.TXT has parsed and stored both
C22_Witness ==
    /\ Completed(1)
    /\ runs[1] = 1
    /\ files_to_process[1] = <<"/d/a.txt", "/d/b.TXT">>
    /\ articles_created_count[1] = 2
    /\ stderr[1] = <<>>
    /\ articles[2].original_url = "/d/b.TXT"
    /\ articles[2].title = <<"B", " ", "O", " ", "P">>

\* C23: a process that is out of ingest_source, after the summary, after an
\* early return on a fatal condition or after an exception the script caught
\* and printed, has closed its session; a session is open only while the
\* loop of its process runs.
C23_SessionClosedOnEveryPath ==
    \A p \in Procs :
        /\ pc[p] = "returned" => session[p] = "closed"
        /\ session[p] = "open" => pc[p] \in {"loop", "check", "parse"}

\* C23 witness: the query raised on the second candidate of a run that had
\* stored the first; the script printed the exception and closed the session
C23_Witness ==
    /\ pc[1] = "returned"
    /\ files_to_process[1] = <<"/d/a.txt", "/d/b.TXT">>
    /\ idx[1] = 2
    /\ articles_created_count[1] = 1
    /\ stderr[1] = <<[error |-> "An error occurred"]>>
    /\ stdout[1] = <<>>
    /\ session[1] = "closed"

====
